---- MODULE Spec2Model ----
(***************************************************************************)
(* Provider adapter scripts: scripts/pollinations.py and                   *)
(* scripts/example_community.py.  One behaviour of this module is one      *)
(* process invocation: main() reads stdin, dispatches to one provider      *)
(* operation, prints one envelope and exits.                               *)
(*                                                                         *)
(* Text is a sequence of pieces (strings).  In the prompts drawn from the  *)
(* input every piece is one character; a literal of the source is one      *)
(* piece.  str.split() is computed on the pieces.                          *)
(***************************************************************************)
EXTENDS Integers, Sequences, FiniteSets, TLC

VARIABLES adapter,        \* which script runs
          stdin,          \* the text on standard input
          pc,             \* where the process is
          prompt, model, max_tokens, task_type,   \* the locals of main
          ops,            \* the provider operations main has called, in order
          net,            \* the outbound network calls made, in order
          http_response,  \* how the outbound call ended (requests' response or error)
          response,       \* main's response: the data the operation returned
          exc,            \* the exception on its way to main's except clause
          stdout,         \* the documents printed
          exit_code

vars == <<adapter, stdin, pc, prompt, model, max_tokens, task_type,
          ops, net, http_response, response, exc, stdout, exit_code>>

(* ------------------------------ bounds -------------------------------- *)
MaxPromptLen == 2

(* --------------------------- JSON / Python values --------------------- *)
JNull == [t |-> "null"]
JBool(b) == [t |-> "bool", b |-> b]
JInt(n) == [t |-> "int", n |-> n]
JFloat(r) == [t |-> "float", repr |-> r]
JStr(s) == [t |-> "str", s |-> s]
JList(l) == [t |-> "list", l |-> l]
Dict(items) == [t |-> "dict", items |-> items]

Keys(d) == {p[1] : p \in d.items}
HasKey(d, k) == k \in Keys(d)
Item(d, k) == (CHOOSE p \in d.items : p[1] = k)[2]

Ok(v) == [ok |-> TRUE, val |-> v]
Raise(type, msg) == [ok |-> FALSE, exc |-> [type |-> type, msg |-> msg]]

\* dict.get(k, default); on a value that is no dict the attribute lookup fails
DictGet(v, k, default) ==
    IF v.t = "dict"
    THEN Ok(IF HasKey(v, k) THEN Item(v, k) ELSE default)
    ELSE Raise("AttributeError", <<"object has no attribute 'get'">>)

\* v[0]
Subscript0(v) ==
    CASE v.t = "list" -> IF Len(v.l) > 0 THEN Ok(v.l[1])
                         ELSE Raise("IndexError", <<"list index out of range">>)
      [] v.t = "str"  -> IF Len(v.s) > 0 THEN Ok(JStr(<<v.s[1]>>))
                         ELSE Raise("IndexError", <<"string index out of range">>)
      [] v.t = "dict" -> Raise("KeyError", <<"0">>)
      [] OTHER        -> Raise("TypeError", <<"object is not subscriptable">>)

\* str.split() with no argument: the maximal runs of non-whitespace
IsSpace(c) == c \in {" ", "\t", "\n", "\r"}

RECURSIVE SplitCount(_, _)
SplitCount(s, inWord) ==
    IF s = <<>> THEN 0
    ELSE IF IsSpace(Head(s)) THEN SplitCount(Tail(s), FALSE)
    ELSE (IF inWord THEN 0 ELSE 1) + SplitCount(Tail(s), TRUE)

\* mutant: a prompt that is no text counted as empty, (prompt or '').split()
LenSplit_Lenient(p) ==
    IF p.t = "str" THEN Ok(SplitCount(p.s, FALSE)) ELSE Ok(0)

\* len(prompt.split())
LenSplit(p) ==
    IF p.t = "str" THEN Ok(SplitCount(p.s, FALSE))
    ELSE Raise("AttributeError", <<"object has no attribute 'split'">>)

\* n + v for an int n
IntAdd(n, v) ==
    IF v.t = "int" THEN Ok(n + v.n)
    ELSE Raise("TypeError", <<"unsupported operand type(s) for +">>)

\* min(v, cap) for an int cap
MinCap(v, cap) ==
    IF v.t = "int" THEN Ok(IF v.n < cap THEN v.n ELSE cap)
    ELSE Raise("TypeError", <<"'<' not supported between instances">>)

\* requests.utils.quote(prompt): unreserved characters are kept, the rest
\* percent-encoded
QuoteChar(c) ==
    CASE c = " "  -> "%20"
      [] c = "\t" -> "%09"
      [] c = "\n" -> "%0A"
      [] c = "\r" -> "%0D"
      [] OTHER    -> c

Quote(p) ==
    IF p.t = "str" THEN Ok([i \in 1..Len(p.s) |-> QuoteChar(p.s[i])])
    ELSE Raise("TypeError", <<"quote_from_bytes() expected bytes">>)

(* ------------------------------ adapters ------------------------------ *)
Adapters == {"pollinations", "example_community"}

ProviderName(a) == JStr(<<a>>)
\* mutant: the cost of the script this one was copied from
Cost_Copied(a) == JFloat("0.0")

Cost(a) == IF a = "pollinations" THEN JFloat("0.0") ELSE JFloat("0.001")
DefaultPrompt == JStr(<<>>)
DefaultModel(a) ==
    IF a = "pollinations" THEN JStr(<<"openai">>) ELSE JStr(<<"default">>)
DefaultMaxTokens == 100
DefaultTaskType == JStr(<<"chat_completion">>)
MockCompletionCap == 20
PostTimeout == 30
HeadTimeout == 10

Wrap(prefix, e) == [ok |-> FALSE,
                    exc |-> [type |-> "Exception", msg |-> <<prefix>> \o e.msg]]

(* ------------------------------ inputs -------------------------------- *)
Chars == {"a", " "}
HelloWorld == <<"h", "e", "l", "l", "o", " ", "w", "o", "r", "l", "d">>
Prompts == UNION {[1..n -> Chars] : n \in 0..MaxPromptLen} \cup {HelloWorld}
TokenValues == {0, 5, 20, 21}

PromptValues == {JStr(s) : s \in Prompts} \cup {JNull, JInt(7)}
ModelValues == {JStr(<<"mistral">>)}
MaxTokensValues == {JInt(n) : n \in TokenValues} \cup {JNull, JStr(<<"ten">>)}
TaskTypeValues == {JStr(<<"image_generation">>), JStr(<<"chat_completion">>),
                   JStr(<<"embedding">>), JNull}

OptField(k, Vals) == {{}} \cup {{<<k, v>>} : v \in Vals}

RequestObjects ==
    {Dict(p \cup m \cup x \cup tt) :
        p \in OptField("prompt", PromptValues),
        m \in OptField("model", ModelValues),
        x \in OptField("max_tokens", MaxTokensValues),
        tt \in OptField("task_type", TaskTypeValues)}

\* what the process may find on its standard input: text that is no JSON
\* document, or the text of a JSON value (an object or not)
Inputs == {[json |-> FALSE]}
          \cup {[json |-> TRUE, val |-> v] :
                  v \in RequestObjects \cup {JNull, JList(<<>>), JInt(3)}}

(* ------------------------- provider behaviour ------------------------- *)
StatusCodes == {200, 302, 404}

FullUsage == Dict({<<"prompt_tokens", JInt(3)>>, <<"completion_tokens", JInt(4)>>,
                   <<"total_tokens", JInt(7)>>})
PartialUsage == Dict({<<"prompt_tokens", JInt(3)>>})
UsageValues == {FullUsage, PartialUsage, JNull}

MessageValues == {JNull, Dict({}), Dict({<<"content", JStr(<<"hi">>)>>})}
ChoiceValues == {JNull} \cup {Dict(m) : m \in OptField("message", MessageValues)}
ChoicesValues == {JNull, JList(<<>>)} \cup {JList(<<c>>) : c \in ChoiceValues}

BodyObjects == {Dict(c \cup u) : c \in OptField("choices", ChoicesValues),
                                 u \in OptField("usage", UsageValues)}
Bodies == {[json |-> FALSE]}
          \cup {[json |-> TRUE, val |-> v] : v \in BodyObjects \cup {JList(<<>>)}}

PostOutcomes == {[kind |-> "timeout"], [kind |-> "connection_error"]}
                \cup {[kind |-> "http", status |-> s, body |-> b] :
                        s \in StatusCodes, b \in Bodies}
\* a HEAD response carries no body
HeadOutcomes == {[kind |-> "timeout"], [kind |-> "connection_error"]}
                \cup {[kind |-> "http", status |-> s] : s \in StatusCodes}


\* mutant: raise_for_status() left out
CallAndRaiseForStatus_NoStatusCheck(o) ==
    CASE o.kind = "timeout" -> Raise("Timeout", <<"Read timed out.">>)
      [] o.kind = "connection_error" ->
             Raise("ConnectionError", <<"Max retries exceeded">>)
      [] OTHER -> Ok(o)

\* requests: the call itself raises on timeout / connection failure, and
\* Response.raise_for_status() raises HTTPError for 400 <= status < 600
CallAndRaiseForStatus(o) ==
    CASE o.kind = "timeout" -> Raise("Timeout", <<"Read timed out.">>)
      [] o.kind = "connection_error" ->
             Raise("ConnectionError", <<"Max retries exceeded">>)
      [] OTHER -> IF o.status >= 400 /\ o.status < 600
                  THEN Raise("HTTPError", <<"Client or Server Error for url">>)
                  ELSE Ok(o)

\* Response.json(); requests.exceptions.JSONDecodeError is a RequestException
ResponseJson(o) ==
    IF o.body.json THEN Ok(o.body.val)
    ELSE Raise("JSONDecodeError", <<"Expecting value">>)

IsRequestException(e) ==
    e.type \in {"Timeout", "ConnectionError", "HTTPError", "JSONDecodeError"}

(* --------------------------- complete_text ---------------------------- *)
\* data.get('choices', [{}])[0].get('message', {}).get('content', '')
TextOf(data) ==
    LET c == DictGet(data, "choices", JList(<<Dict({})>>)) IN
    IF ~c.ok THEN c ELSE
    LET e == Subscript0(c.val) IN
    IF ~e.ok THEN e ELSE
    LET m == DictGet(e.val, "message", Dict({})) IN
    IF ~m.ok THEN m ELSE
    DictGet(m.val, "content", JStr(<<>>))

\* the default handed to data.get('usage', ...), built before the lookup
EstimatedUsage(p, mt) ==
    LET n == LenSplit(p) IN
    IF ~n.ok THEN n ELSE
    LET total == IntAdd(n.val, mt) IN
    IF ~total.ok THEN total ELSE
    Ok(Dict({<<"prompt_tokens", JInt(n.val)>>,
             <<"completion_tokens", mt>>,
             <<"total_tokens", JInt(total.val)>>}))


\* mutant: data.get('usage') without the estimated default
UsageOf_NoDefault(data, p, mt) ==
    LET d == EstimatedUsage(p, mt) IN
    IF ~d.ok THEN d ELSE DictGet(data, "usage", JNull)

UsageOf(data, p, mt) ==
    LET d == EstimatedUsage(p, mt) IN
    IF ~d.ok THEN d ELSE DictGet(data, "usage", d.val)

TextData(data, p, m, mt) ==
    LET text == TextOf(data) IN
    IF ~text.ok THEN text ELSE
    LET usage == UsageOf(data, p, mt) IN
    IF ~usage.ok THEN usage ELSE
    Ok(Dict({<<"text", text.val>>, <<"model", m>>, <<"usage", usage.val>>}))

\* the try block of complete_text once requests.post is over, with its
\* except clause
CompleteTextResult(p, m, mt, o) ==
    LET r == CallAndRaiseForStatus(o)
        d == IF r.ok THEN ResponseJson(o) ELSE r
        out == IF d.ok THEN TextData(d.val, p, m, mt) ELSE d
    IN IF ~out.ok /\ IsRequestException(out.exc)
       THEN Wrap("Pollinations text API request failed: ", out.exc)
       ELSE out

(* --------------------------- generate_image --------------------------- *)
ImageBaseUrl == <<"https://image.pollinations.ai/prompt">>

ImageUrl(p) ==
    LET q == Quote(p) IN
    IF ~q.ok THEN q ELSE Ok(ImageBaseUrl \o <<"/">> \o q.val)

GenerateImageResult(p, url, o) ==
    LET r == CallAndRaiseForStatus(o) IN
    IF r.ok
    THEN Ok(Dict({<<"url", JStr(url)>>, <<"prompt", p>>,
                  <<"model", JStr(<<"pollinations-image">>)>>,
                  <<"size", JStr(<<"1024x1024">>)>>}))
    ELSE Wrap("Pollinations image API request failed: ", r.exc)

(* ------------------------- call_community_api ------------------------- *)
\* f'Community API response to: {prompt}': the prompt formatted with str()
FormatValue(v) ==
    CASE v.t = "str"  -> v.s
      [] v.t = "null" -> <<"None">>
      [] v.t = "int"  -> <<ToString(v.n)>>
      [] OTHER        -> <<"?">>


\* mutant: len(prompt) in place of len(prompt.split())
MockUsage_CharCount(p, mt) ==
    LET n == IF p.t = "str" THEN Ok(Len(p.s)) ELSE LenSplit(p) IN
    IF ~n.ok THEN n ELSE
    LET c == MinCap(mt, MockCompletionCap) IN
    IF ~c.ok THEN c ELSE
    Ok(Dict({<<"prompt_tokens", JInt(n.val)>>,
             <<"completion_tokens", JInt(c.val)>>,
             <<"total_tokens", JInt(n.val + c.val)>>}))

MockUsage(p, mt) ==
    LET n == LenSplit(p) IN
    IF ~n.ok THEN n ELSE
    LET c == MinCap(mt, MockCompletionCap) IN
    IF ~c.ok THEN c ELSE
    Ok(Dict({<<"prompt_tokens", JInt(n.val)>>,
             <<"completion_tokens", JInt(c.val)>>,
             <<"total_tokens", JInt(n.val + c.val)>>}))

CallCommunityApiResult(p, m, mt) ==
    LET usage == MockUsage(p, mt) IN
    IF usage.ok
    THEN Ok(Dict({<<"text", JStr(<<"Community API response to: ">> \o FormatValue(p))>>,
                  <<"model", m>>, <<"usage", usage.val>>}))
    ELSE Wrap("Community API request failed: ", usage.exc)

(* ------------------------------ envelopes ----------------------------- *)
SuccessEnvelope(a, data) ==
    Dict({<<"success", JBool(TRUE)>>, <<"data", data>>,
          <<"cost", Cost(a)>>, <<"provider", ProviderName(a)>>})

\* mutant: the error envelope built from the success one, cost kept
FailureEnvelope_WithCost(a, e) ==
    Dict({<<"success", JBool(FALSE)>>, <<"error", JStr(e.msg)>>,
          <<"cost", Cost(a)>>, <<"provider", ProviderName(a)>>})

FailureEnvelope(a, e) ==
    Dict({<<"success", JBool(FALSE)>>, <<"error", JStr(e.msg)>>,
          <<"provider", ProviderName(a)>>})

(* ------------------------------- state -------------------------------- *)
\* a local of main() that is not bound yet
Unset == [t |-> "unset"]
NoExc == [type |-> "none", msg |-> <<>>]
\* exit_code of a process that has not exited
Running == -1

Init ==
    /\ adapter \in Adapters
    /\ stdin \in Inputs
    /\ pc = "read"
    /\ prompt = Unset /\ model = Unset /\ max_tokens = Unset /\ task_type = Unset
    /\ ops = <<>>
    /\ net = <<>>
    /\ http_response = Unset
    /\ response = Unset
    /\ exc = NoExc
    /\ stdout = <<>>
    /\ exit_code = Running

\* mutant: max_tokens read without its default
ExtractParams_NoMaxTokensDefault(a, rd) ==
    LET p == DictGet(rd, "prompt", DefaultPrompt)
        m == DictGet(rd, "model", DefaultModel(a))
        x == DictGet(rd, "max_tokens", JNull)
        tt == IF a = "pollinations"
              THEN DictGet(rd, "task_type", DefaultTaskType)
              ELSE Ok(Unset)
    IN IF ~p.ok THEN p
       ELSE Ok([prompt |-> p.val, model |-> m.val,
                max_tokens |-> x.val, task_type |-> tt.val])

\* the four request_data.get(...) of main, the first failing one raising
ExtractParams(a, rd) ==
    LET p == DictGet(rd, "prompt", DefaultPrompt)
        m == DictGet(rd, "model", DefaultModel(a))
        x == DictGet(rd, "max_tokens", JInt(DefaultMaxTokens))
        tt == IF a = "pollinations"
              THEN DictGet(rd, "task_type", DefaultTaskType)
              ELSE Ok(Unset)
    IN IF ~p.ok THEN p
       ELSE Ok([prompt |-> p.val, model |-> m.val,
                max_tokens |-> x.val, task_type |-> tt.val])

\* json.loads(sys.stdin.read()) and the extraction of the parameters
ReadRequest ==
    /\ pc = "read"
    /\ LET r == IF stdin.json THEN ExtractParams(adapter, stdin.val)
                ELSE Raise("JSONDecodeError", <<"Expecting value">>)
       IN IF r.ok
          THEN /\ prompt' = r.val.prompt
               /\ model' = r.val.model
               /\ max_tokens' = r.val.max_tokens
               /\ task_type' = r.val.task_type
               /\ pc' = "dispatch"
               /\ exc' = exc
          ELSE /\ exc' = r.exc
               /\ pc' = "except"
               /\ UNCHANGED <<prompt, model, max_tokens, task_type>>
    /\ UNCHANGED <<adapter, stdin, http_response, ops, net, response, stdout, exit_code>>

\* mutant: the test turned round, everything but chat_completion an image
Operation_NotChat(a, tt) ==
    IF a = "pollinations"
    THEN IF tt # JStr(<<"chat_completion">>) THEN "generate_image"
         ELSE "complete_text"
    ELSE "call_community_api"

\* the provider operation main calls
Operation(a, tt) ==
    IF a = "pollinations"
    THEN IF tt = JStr(<<"image_generation">>) THEN "generate_image"
         ELSE "complete_text"
    ELSE "call_community_api"

Dispatch ==
    /\ pc = "dispatch"
    /\ LET op == Operation(adapter, task_type) IN
         /\ ops' = Append(ops, op)
         /\ pc' = op
    /\ UNCHANGED <<adapter, stdin, http_response, prompt, model, max_tokens, task_type,
                   net, response, exc, stdout, exit_code>>

\* what an operation hands back to main: its return value or its exception
Finish(r) ==
    IF r.ok
    THEN response' = r.val /\ pc' = "print" /\ exc' = exc
    ELSE exc' = r.exc /\ pc' = "except" /\ response' = response

\* complete_text up to the moment requests.post is on the wire
PostRequest ==
    /\ pc = "complete_text"
    /\ net' = Append(net, [method |-> "POST",
                           url |-> <<"https://text.pollinations.ai/openai">>,
                           timeout |-> PostTimeout])
    /\ pc' = "post_wait"
    /\ UNCHANGED <<adapter, stdin, http_response, prompt, model, max_tokens, task_type,
                   ops, response, exc, stdout, exit_code>>

\* mutant: a failed call sent once more
PostReturns_Retry ==
    /\ pc = "post_wait"
    /\ \E o \in PostOutcomes :
          /\ http_response' = o
          /\ LET r == CompleteTextResult(prompt, model, max_tokens, o) IN
             IF ~r.ok /\ Len(net) < 2
             THEN pc' = "complete_text" /\ UNCHANGED <<response, exc>>
             ELSE Finish(r)
    /\ UNCHANGED <<adapter, stdin, prompt, model, max_tokens, task_type,
                   ops, net, stdout, exit_code>>

\* requests.post returns or raises, and complete_text runs to its end
PostReturns ==
    /\ pc = "post_wait"
    /\ \E o \in PostOutcomes :
          /\ http_response' = o
          /\ Finish(CompleteTextResult(prompt, model, max_tokens, o))
    /\ UNCHANGED <<adapter, stdin, prompt, model, max_tokens, task_type,
                   ops, net, stdout, exit_code>>

\* generate_image up to the moment requests.head is on the wire; quote()
\* is outside the try block
HeadRequest ==
    /\ pc = "generate_image"
    /\ LET u == ImageUrl(prompt) IN
         IF u.ok
         THEN /\ net' = Append(net, [method |-> "HEAD", url |-> u.val,
                                     timeout |-> HeadTimeout])
              /\ pc' = "head_wait"
              /\ exc' = exc
         ELSE /\ exc' = u.exc
              /\ pc' = "except"
              /\ net' = net
    /\ UNCHANGED <<adapter, stdin, http_response, prompt, model, max_tokens, task_type,
                   ops, response, stdout, exit_code>>

HeadReturns ==
    /\ pc = "head_wait"
    /\ \E o \in HeadOutcomes :
          /\ http_response' = o
          /\ Finish(GenerateImageResult(prompt, net[Len(net)].url, o))
    /\ UNCHANGED <<adapter, stdin, prompt, model, max_tokens, task_type,
                   ops, net, stdout, exit_code>>

\* the mock: no network access
CallCommunityApi ==
    /\ pc = "call_community_api"
    /\ Finish(CallCommunityApiResult(prompt, model, max_tokens))
    /\ UNCHANGED <<adapter, stdin, http_response, prompt, model, max_tokens, task_type,
                   ops, net, stdout, exit_code>>

\* result = {...}; print(json.dumps(result))
PrintSuccess ==
    /\ pc = "print"
    /\ stdout' = Append(stdout, SuccessEnvelope(adapter, response))
    /\ pc' = "return"
    /\ UNCHANGED <<adapter, stdin, http_response, prompt, model, max_tokens, task_type,
                   ops, net, response, exc, exit_code>>

\* main returns and the interpreter exits
MainReturns ==
    /\ pc = "return"
    /\ pc' = "exited"
    /\ exit_code' = 0
    /\ UNCHANGED <<adapter, stdin, http_response, prompt, model, max_tokens, task_type,
                   ops, net, response, exc, stdout>>

\* mutant: sys.exit(1) left out, so main returns normally
HandleException_NoExit ==
    /\ pc = "except"
    /\ stdout' = Append(stdout, FailureEnvelope(adapter, exc))
    /\ exit_code' = 0
    /\ pc' = "exited"
    /\ UNCHANGED <<adapter, stdin, http_response, prompt, model, max_tokens, task_type,
                   ops, net, response, exc>>

\* except Exception as e: print the error envelope; sys.exit(1)
HandleException ==
    /\ pc = "except"
    /\ stdout' = Append(stdout, FailureEnvelope(adapter, exc))
    /\ exit_code' = 1
    /\ pc' = "exited"
    /\ UNCHANGED <<adapter, stdin, http_response, prompt, model, max_tokens, task_type,
                   ops, net, response, exc>>

Next ==
    \/ ReadRequest
    \/ Dispatch
    \/ PostRequest
    \/ PostReturns
    \/ HeadRequest
    \/ HeadReturns
    \/ CallCommunityApi
    \/ PrintSuccess
    \/ MainReturns
    \/ HandleException

Spec == Init /\ [][Next]_vars

\* the process is scheduled until it exits, and every network call is
\* bounded by its timeout
LiveSpec == Spec /\ WF_vars(Next)

(* ======================== properties of the adapters ================== *)
Exited == pc = "exited"
IsSuccessDoc(d) == d.t = "dict" /\ HasKey(d, "success") /\ Item(d, "success") = JBool(TRUE)
IsFailureDoc(d) == d.t = "dict" /\ HasKey(d, "success") /\ Item(d, "success") = JBool(FALSE)
Succeeded == Exited /\ Len(stdout) = 1 /\ IsSuccessDoc(stdout[1]) /\ exit_code = 0
Failed == Exited /\ Len(stdout) = 1 /\ IsFailureDoc(stdout[1]) /\ exit_code = 1

RequestIsObject == stdin.json /\ stdin.val.t = "dict"
InputMalformed == ~RequestIsObject
FieldAbsent(k) == ~HasKey(stdin.val, k)
FieldIs(k, type) == HasKey(stdin.val, k) /\ Item(stdin.val, k).t = type

CallEnded == http_response # Unset
CallRaised == CallEnded /\ http_response.kind \in {"timeout", "connection_error"}
StatusIn(lo, hi) == CallEnded /\ http_response.kind = "http"
                    /\ http_response.status >= lo /\ http_response.status <= hi

\* C1: one invocation prints exactly one envelope; it exits 0 exactly when
\* the envelope is a Success and 1 exactly when it is a Failure; nothing is
\* printed twice and no run exits with nothing printed.
C1_OneEnvelopeExitCode ==
    /\ Len(stdout) <= 1
    /\ \A i \in 1..Len(stdout) : IsSuccessDoc(stdout[i]) \/ IsFailureDoc(stdout[i])
    /\ ~Exited => exit_code = Running
    /\ Exited => /\ Len(stdout) = 1
                 /\ exit_code \in {0, 1}
                 /\ exit_code = 0 <=> IsSuccessDoc(stdout[1])
                 /\ exit_code = 1 <=> IsFailureDoc(stdout[1])

C1_Witness ==
    /\ Exited /\ exit_code = 1 /\ IsFailureDoc(stdout[1])
    /\ Len(net) = 1 /\ adapter = "pollinations"

\* What C2 and its amendment share: an exception, wherever raised, reaches
\* main's except clause and ends in a Failure envelope and exit code 1;
\* malformed input fails before any provider operation is started.
FailureIsCaught(failure) ==
    /\ exc # NoExc => pc \in {"except", "exited"} /\ (Len(stdout) = 1 => IsFailureDoc(stdout[1]))
    /\ Exited /\ (failure \/ exc # NoExc) => Failed
    /\ Exited /\ InputMalformed => Failed /\ ops = <<>> /\ net = <<>>

ValidRequest ==
    /\ RequestIsObject
    /\ FieldAbsent("prompt") \/ FieldIs("prompt", "str")
    /\ FieldAbsent("model") \/ FieldIs("model", "str")
    /\ FieldAbsent("max_tokens") \/ FieldIs("max_tokens", "int")
    /\ FieldAbsent("task_type") \/ FieldIs("task_type", "str")

FixedProviderAndCost(d) ==
    /\ Item(d, "provider") = JStr(<<adapter>>)
    /\ adapter = "pollinations" => Item(d, "cost") = JFloat("0.0")
    /\ adapter = "example_community" => Item(d, "cost") = JFloat("0.001")

\* the 2xx body is a JSON object from which choices[0].message can be read
BodyHasReadableChoice ==
    /\ http_response.body.json
    /\ LET b == http_response.body.val IN
       /\ b.t = "dict"
       /\ HasKey(b, "choices") =>
            LET cs == Item(b, "choices") IN
            /\ cs.t = "list" /\ Len(cs.l) >= 1
            /\ cs.l[1].t = "dict"
            /\ HasKey(cs.l[1], "message") => Item(cs.l[1], "message").t = "dict"

\* C3 as stated: a valid request and a 2xx response, whatever its body,
\* give a Success envelope with the fixed provider and cost.
C3_Original ==
    Exited /\ ValidRequest /\ (adapter = "example_community" \/ StatusIn(200, 299))
        => Succeeded /\ FixedProviderAndCost(stdout[1])

\* C3 amended: a valid request gives a Success envelope with exit code 0,
\* the adapter's fixed provider and cost, when the mock adapter runs, when
\* the image reachability check returns 2xx, or when the text call returns
\* 2xx with a body that is a JSON object whose choices is absent or a
\* non-empty list whose first element is an object with message absent or
\* an object.
C3_SuccessWhenReachable ==
    Exited /\ ValidRequest
      /\ \/ adapter = "example_community"
         \/ StatusIn(200, 299) /\ ops = <<"generate_image">>
         \/ StatusIn(200, 299) /\ ops = <<"complete_text">> /\ BodyHasReadableChoice
        => Succeeded /\ FixedProviderAndCost(stdout[1])

C3_Witness ==
    /\ Succeeded /\ ValidRequest /\ StatusIn(200, 299)
    /\ ops = <<"complete_text">> /\ BodyHasReadableChoice
    /\ HasKey(http_response.body.val, "choices")

\* C4: every printed envelope is either a Success with exactly success,
\* data, cost, provider, or a Failure with exactly success, error (text),
\* provider; the provider value depends on the adapter only.
C4_EnvelopeShapes ==
    \A i \in 1..Len(stdout) :
        LET d == stdout[i] IN
        /\ d.t = "dict"
        /\ \/ /\ IsSuccessDoc(d)
              /\ Keys(d) = {"success", "data", "cost", "provider"}
           \/ /\ IsFailureDoc(d)
              /\ Keys(d) = {"success", "error", "provider"}
              /\ Item(d, "error").t = "str"
        /\ Item(d, "provider") = JStr(<<adapter>>)

C4_Witness ==
    /\ Exited /\ IsFailureDoc(stdout[1]) /\ adapter = "example_community"
    /\ Keys(stdout[1]) = {"success", "error", "provider"}

Given(k, default) == IF HasKey(stdin.val, k) THEN Item(stdin.val, k) ELSE default
Data == Item(stdout[1], "data")
Usage == Item(Data, "usage")
CountKeys == {"prompt_tokens", "completion_tokens", "total_tokens"}
HasAllCounts(u) == u.t = "dict" /\ CountKeys \subseteq Keys(u)
Counts(pt, ct, tt) ==
    Dict({<<"prompt_tokens", JInt(pt)>>, <<"completion_tokens", JInt(ct)>>,
          <<"total_tokens", JInt(tt)>>})

\* the number of whitespace-separated tokens: the places where a token starts
WordStarts(s) ==
    Cardinality({i \in 1..Len(s) : ~IsSpace(s[i]) /\ (i = 1 \/ IsSpace(s[i - 1]))})

\* C5: an invocation whose input parses as the request object dispatches to
\* exactly one provider operation: in pollinations generate_image when
\* task_type equals 'image_generation' and complete_text for every other
\* value or none; in example_community call_community_api whatever
\* task_type is; never two operations in one invocation.
C5_DispatchByTaskType ==
    /\ Len(ops) <= 1
    /\ pc = "read" => ops = <<>>
    /\ RequestIsObject /\ pc \notin {"read", "dispatch"} =>
         /\ Len(ops) = 1
         /\ adapter = "example_community" => ops[1] = "call_community_api"
         /\ adapter = "pollinations" =>
              IF FieldIs("task_type", "str")
                 /\ Item(stdin.val, "task_type").s = <<"image_generation">>
              THEN ops[1] = "generate_image"
              ELSE ops[1] = "complete_text"

C5_Witness ==
    /\ Exited /\ adapter = "pollinations" /\ ops = <<"complete_text">>
    /\ FieldIs("task_type", "str") /\ Item(stdin.val, "task_type").s = <<"embedding">>

MockTextRequest ==
    /\ adapter = "example_community" /\ RequestIsObject
    /\ FieldIs("prompt", "str")
    /\ FieldAbsent("max_tokens") \/ FieldIs("max_tokens", "int")
RequestedPrompt == Item(stdin.val, "prompt").s
RequestedMaxTokens == Given("max_tokens", JInt(100)).n
MockAnswer(completion) ==
    /\ Succeeded
    /\ Item(Data, "text") = JStr(<<"Community API response to: ">> \o RequestedPrompt)
    /\ Usage = Counts(WordStarts(RequestedPrompt), completion,
                      WordStarts(RequestedPrompt) + completion)

\* C6 as stated: the mock reports completion_tokens = max_tokens, 100 when
\* max_tokens is absent.
C6_Original ==
    Exited /\ MockTextRequest => MockAnswer(RequestedMaxTokens)

\* C6 amended: for the mock adapter and every request with a text prompt
\* and an integer (or absent, then 100) max_tokens, prompt_tokens is the
\* number of whitespace-separated tokens of prompt, completion_tokens is
\* the smaller of max_tokens and 20, total_tokens is their sum and
\* data.text is 'Community API response to: ' followed by the prompt;
\* 'hello world' with max_tokens 5 gives 2, 5, 7, and an absent max_tokens
\* gives completion_tokens 20.
C6_MockUsage ==
    Exited /\ MockTextRequest =>
        /\ MockAnswer(IF RequestedMaxTokens < 20 THEN RequestedMaxTokens ELSE 20)
        /\ RequestedPrompt = HelloWorld /\ RequestedMaxTokens = 5 => Usage = Counts(2, 5, 7)
        /\ FieldAbsent("max_tokens") => Item(Usage, "completion_tokens") = JInt(20)

C6_Witness ==
    /\ Exited /\ MockTextRequest /\ RequestedPrompt = HelloWorld
    /\ FieldAbsent("max_tokens") /\ Usage = Counts(2, 20, 22)

TextSuccess == Succeeded /\ ops[1] \in {"complete_text", "call_community_api"}

\* C7 as stated: every Success envelope of a text completion has data.usage
\* with all three counts, whatever usage the 2xx response carries.
C7_Original ==
    TextSuccess => HasKey(Data, "usage") /\ HasAllCounts(Usage)

\* C7 amended: every Success envelope of a text completion has data.usage.
\* In the mock adapter, and in pollinations when the 2xx response has no
\* usage key, it holds the three estimated counts (prompt_tokens the token
\* count of prompt, completion_tokens max_tokens resp. min(max_tokens, 20),
\* total_tokens their sum); when the response has a usage key its value is
\* passed on unchanged, be it null or a part of the counts.
C7_UsagePresent ==
    TextSuccess =>
        /\ HasKey(Data, "usage")
        /\ adapter = "example_community" => HasAllCounts(Usage) /\ Keys(Usage) = CountKeys
        /\ adapter = "pollinations" =>
             LET body == http_response.body.val IN
             IF HasKey(body, "usage")
             THEN Usage = Item(body, "usage")
             ELSE Usage = Counts(WordStarts(prompt.s), max_tokens.n,
                                 WordStarts(prompt.s) + max_tokens.n)

C7_Witness ==
    /\ TextSuccess /\ adapter = "pollinations"
    /\ ~HasKey(http_response.body.val, "usage")
    /\ HasAllCounts(Usage) /\ prompt.s # <<>>

\* the request with every default written out
ExplicitRequest ==
    Dict({<<"prompt", Given("prompt", JStr(<<>>))>>,
          <<"model", Given("model", IF adapter = "pollinations"
                                    THEN JStr(<<"openai">>) ELSE JStr(<<"default">>))>>,
          <<"max_tokens", Given("max_tokens", JInt(100))>>,
          <<"task_type", Given("task_type", JStr(<<"chat_completion">>))>>})

\* the operation main runs on parameters ps, the outbound call ending as o
OperationResult(a, ps, o) ==
    LET op == Operation(a, ps.task_type) IN
    CASE op = "complete_text" -> CompleteTextResult(ps.prompt, ps.model, ps.max_tokens, o)
      [] op = "generate_image" ->
             (LET u == ImageUrl(ps.prompt) IN
              IF u.ok THEN GenerateImageResult(ps.prompt, u.val, o) ELSE u)
      [] OTHER -> CallCommunityApiResult(ps.prompt, ps.model, ps.max_tokens)

\* C8: for a request that is a JSON object a missing model, max_tokens,
\* prompt, task_type is replaced by 'openai' / 'default', 100, '' and
\* 'chat_completion', and the operation run and the data (or error)
\* returned are those of the request with these values written out.
C8_DefaultsAsExplicit ==
    /\ RequestIsObject /\ pc # "read" =>
         /\ prompt = Item(ExplicitRequest, "prompt")
         /\ model = Item(ExplicitRequest, "model")
         /\ max_tokens = Item(ExplicitRequest, "max_tokens")
         /\ adapter = "pollinations" => task_type = Item(ExplicitRequest, "task_type")
    /\ RequestIsObject /\ Exited =>
         LET ps == ExtractParams(adapter, ExplicitRequest).val
             r == OperationResult(adapter, ps, http_response)
         IN /\ ops = <<Operation(adapter, ps.task_type)>>
            /\ r.ok => Succeeded /\ Data = r.val
            /\ ~r.ok => Failed /\ exc = r.exc

C8_Witness ==
    /\ Succeeded /\ RequestIsObject /\ Keys(stdin.val) = {}
    /\ adapter = "pollinations" /\ ops = <<"complete_text">>
    /\ Item(Usage, "completion_tokens") = JInt(100)

PromptUsable == FieldAbsent("prompt") \/ FieldIs("prompt", "str")
MaxTokensUsable == FieldAbsent("max_tokens") \/ FieldIs("max_tokens", "int")

InvocationState ==
    IF ~Exited THEN "Running" ELSE IF exit_code = 0 THEN "Succeeded" ELSE "Failed"

AtMostOneCall ==
    /\ Len(net) <= 1 /\ Len(ops) <= 1
    /\ InputMalformed \/ adapter = "example_community" => net = <<>>
    /\ net # <<>> =>
         \/ ops = <<"complete_text">> /\ net[1].method = "POST"
         \/ ops = <<"generate_image">> /\ net[1].method = "HEAD"
    /\ Exited /\ ops = <<"complete_text">> => Len(net) = 1
    /\ Exited /\ ops = <<"generate_image">> /\ prompt.t = "str" => Len(net) = 1
    /\ Exited => (Succeeded \/ Failed) /\ ~(Succeeded /\ Failed)

\* C10: an invocation goes from Running to exactly one of Succeeded and
\* Failed and stays there; it makes at most one outbound call (one POST for
\* a text completion, one HEAD for an image, none in the mock and none for
\* malformed input), never a second one after a failure, and it terminates.
C10_RunOnceAndTerminate ==
    /\ []AtMostOneCall
    /\ [][InvocationState # "Running"
            => InvocationState' = InvocationState /\ stdout' = stdout /\ net' = net]_vars
    /\ [][InvocationState' # InvocationState => InvocationState = "Running"]_vars
    /\ <>Exited

C10_Witness ==
    /\ Failed /\ Len(net) = 1 /\ CallRaised /\ ops = <<"complete_text">>

====
